---------------------------- MODULE Spec2Model ----------------------------
(***************************************************************************)
(* Model of the JSON classification-and-storage engine                     *)
(* (app/utils/json_analyzer.py, app/routers/json_routes.py).               *)
(*                                                                         *)
(* File names, keys and digests are sequences of one-character strings, so *)
(* that the code's string operations (endswith, lower, "in", slicing,      *)
(* Path.stem / Path.suffix) are computed as the code computes them.        *)
(* Directories map names to inode numbers; "inodes" holds the contents.    *)
(***************************************************************************)
EXTENDS Integers, Sequences, FiniteSets, TLC

----------------------------------------------------------------------------
(* Strings *)

SeqToSet(s) == { s[i] : i \in 1..Len(s) }

\* str.endswith(suffix)
EndsWith(s, suf) ==
    /\ Len(suf) <= Len(s)
    /\ SubSeq(s, Len(s) - Len(suf) + 1, Len(s)) = suf

\* "sub in s" on strings
Contains(s, sub) ==
    \E i \in 1..(Len(s) - Len(sub) + 1) : SubSeq(s, i, i + Len(sub) - 1) = sub

LowerChar(c) ==
    CASE c = "I" -> "i"
      [] c = "D" -> "d"
      [] c = "J" -> "j"
      [] c = "S" -> "s"
      [] c = "O" -> "o"
      [] c = "N" -> "n"
      [] c = "X" -> "x"
      [] OTHER   -> c

\* str.lower()
Lower(s) == [i \in 1..Len(s) |-> LowerChar(s[i])]

DigitChar(d) == <<"0", "1", "2", "3", "4", "5", "6", "7", "8", "9">>[d + 1]

\* zero-padded two-digit field of strftime (%S)
TwoDigits(n) == <<DigitChar((n \div 10) % 10), DigitChar(n % 10)>>

\* index of the last "." of a name, 0 when there is none (str.rfind, 1-based)
RFindDot(name) ==
    LET dots == { i \in 1..Len(name) : name[i] = "." }
    IN  IF dots = {} THEN 0 ELSE CHOOSE i \in dots : \A j \in dots : j <= i

\* pathlib.PurePath.suffix: the last dot-suffix, empty when the only dot
\* leads the name or ends it
Suffix(name) ==
    LET i == RFindDot(name)
    IN  IF 1 < i /\ i < Len(name) THEN SubSeq(name, i, Len(name)) ELSE <<>>

\* pathlib.PurePath.stem
Stem(name) ==
    LET i == RFindDot(name)
    IN  IF 1 < i /\ i < Len(name) THEN SubSeq(name, 1, i - 1) ELSE name

\* pathlib.PurePath.with_suffix(suffix)
WithSuffix(name, suffix) == Stem(name) \o suffix

DotJson     == <<".", "j", "s", "o", "n">>
DotMetaJson == <<".", "m", "e", "t", "a">> \o DotJson
DotSchemaJson == <<".", "s", "c", "h", "e", "m", "a">> \o DotJson

----------------------------------------------------------------------------
(* Parsed JSON values: [t |-> "scalar" | "dict" | "list", v |-> ...].       *)
(* A dict's v is the sequence of its <<key, value>> items in document      *)
(* order (keys distinct), a list's v the sequence of its elements.         *)

Scalar(c)   == [t |-> "scalar", v |-> <<c>>]
Dict(items) == [t |-> "dict", v |-> items]
List(elems) == [t |-> "list", v |-> elems]

\* data.keys() / item.keys()
Keys(d) == [i \in 1..Len(d.v) |-> d.v[i][1]]

\* data.values()
Values(d) == [i \in 1..Len(d.v) |-> d.v[i][2]]

Min(a, b) == IF a <= b THEN a ELSE b

SetMax(S) == CHOOSE m \in S : \A x \in S : x <= m

Reverse(s) == [i \in 1..Len(s) |-> s[Len(s) + 1 - i]]

\* list(a_set): the iteration order of a set of str depends on the process's
\* string-hash seed; keyseq is the order the keys were inserted in.
ListOfSet(keyseq, seed) == IF seed = 0 THEN keyseq ELSE Reverse(keyseq)

SampleSize == 10
MaxSqlColumns == 50
SmallColumnCount == 20
\* 10 * 1024 * 1024
AnalyzeSizeLimit == 10485760

KeyId    == <<"i", "d">>
KeyUndId == <<"_", "i", "d">>

\* _is_sql_optimized matching only 'id' case-insensitively
IsSqlOptimized_IdOnly(sample, keys) ==
    IF Cardinality(keys) > MaxSqlColumns
    THEN FALSE
    ELSE LET has_id == \E key \in keys : Lower(key) = KeyId
             has_foreign_keys == \E key \in keys : EndsWith(key, KeyUndId)
         IN  has_id \/ has_foreign_keys \/ Cardinality(keys) <= SmallColumnCount

IsSqlOptimized(sample, keys) ==
    IF Cardinality(keys) > MaxSqlColumns
    THEN FALSE
    ELSE LET has_id == \E key \in keys : Lower(key) \in {KeyId, KeyUndId}
             has_foreign_keys == \E key \in keys : EndsWith(key, KeyUndId)
         IN  has_id \/ has_foreign_keys \/ Cardinality(keys) <= SmallColumnCount

RECURSIVE CalculateDepth(_, _)
CalculateDepth(obj, current_depth) ==
    IF obj.t # "dict"
    THEN current_depth
    ELSE LET below(value) ==
                 IF value.t = "dict"
                 THEN CalculateDepth(value, current_depth + 1)
                 ELSE IF value.t = "list" /\ value.v # <<>> /\ value.v[1].t = "dict"
                      THEN CalculateDepth(value.v[1], current_depth + 1)
                      ELSE current_depth
         IN  SetMax({current_depth} \cup { below(obj.v[i][2]) : i \in 1..Len(obj.v) })

\* the loop of _analyze_object over data.values(), from item i on
RECURSIVE HasImmediateNesting(_, _)
HasImmediateNesting(values, i) ==
    IF i > Len(values)
    THEN FALSE
    ELSE LET value == values[i]
         IN  IF value.t = "dict" /\ value.v # <<>>
             THEN TRUE
             ELSE IF /\ value.t = "list"
                     /\ value.v # <<>>
                     /\ \E j \in 1..Len(value.v) : value.v[j].t \in {"dict", "list"}
                  THEN TRUE
                  ELSE HasImmediateNesting(values, i + 1)

\* _analyze_object with the column limits of the array path applied to mappings
AnalyzeObject_ColumnLimits(data) ==
    IF HasImmediateNesting(Values(data), 1)
         \/ ~ IsSqlOptimized(<<data>>, SeqToSet(Keys(data)))
    THEN [recommendation |-> "nosql",
          reason |-> "Contains nested dictionary or list",
          nesting_level |-> CalculateDepth(data, 0)]
    ELSE [recommendation |-> "sql",
          reason |-> "Flat structure",
          keys |-> Keys(data)]

AnalyzeObject(data) ==
    LET has_immediate_nesting == HasImmediateNesting(Values(data), 1)
        max_depth == CalculateDepth(data, 0)
    IN  IF has_immediate_nesting
        THEN [recommendation |-> "nosql",
              reason |-> "Contains nested dictionary or list",
              nesting_level |-> max_depth]
        ELSE [recommendation |-> "sql",
              reason |-> "Flat structure",
              keys |-> Keys(data)]

\* _analyze_array looking at every element instead of the first ten
AnalyzeArray_NoSample(data, seed) ==
    IF data.v = <<>>
    THEN [recommendation |-> "nosql", reason |-> "Empty array"]
    ELSE IF ~ \A i \in 1..Len(data.v) : data.v[i].t = "dict"
    THEN [recommendation |-> "nosql", reason |-> "Array contains non-object items"]
    ELSE LET first_keys == SeqToSet(Keys(data.v[1]))
         IN  IF /\ \A i \in 1..Len(data.v) : SeqToSet(Keys(data.v[i])) = first_keys
                /\ IsSqlOptimized(data.v, first_keys)
             THEN [recommendation |-> "sql",
                   reason |-> "Uniform structured data",
                   estimated_rows |-> Len(data.v),
                   columns |-> ListOfSet(Keys(data.v[1]), seed)]
             ELSE [recommendation |-> "nosql",
                   reason |-> "Variable structure or complex data"]

AnalyzeArray(data, seed) ==
    IF data.v = <<>>
    THEN [recommendation |-> "nosql", reason |-> "Empty array"]
    ELSE LET sample_size == Min(SampleSize, Len(data.v))
             sample == SubSeq(data.v, 1, sample_size)
         IN  IF ~ \A i \in 1..sample_size : sample[i].t = "dict"
             THEN [recommendation |-> "nosql",
                   reason |-> "Array contains non-object items"]
             ELSE LET first_keys == SeqToSet(Keys(sample[1]))
                      consistent_structure ==
                          \A i \in 1..sample_size : SeqToSet(Keys(sample[i])) = first_keys
                  IN  IF consistent_structure /\ IsSqlOptimized(sample, first_keys)
                      THEN [recommendation |-> "sql",
                            reason |-> "Uniform structured data",
                            estimated_rows |-> Len(data.v),
                            columns |-> ListOfSet(Keys(sample[1]), seed)]
                      ELSE [recommendation |-> "nosql",
                            reason |-> "Variable structure or complex data"]

\* What the body of the try block of analyze_json_file does with a file:
\* file is [exists, size, text]; text is a parsed value, or t = "invalid"
\* (json.load raises JSONDecodeError) or t = "unreadable" (open/read raises).
AnalyzeTry(file, seed) ==
    IF ~ file.exists
    THEN [raised |-> "OSError"]
    ELSE IF file.size > AnalyzeSizeLimit
    THEN [recommendation |-> "nosql", reason |-> "File too large for SQL optimization"]
    ELSE IF file.text.t = "unreadable"
    THEN [raised |-> "Exception"]
    ELSE IF file.text.t = "invalid"
    THEN [raised |-> "JSONDecodeError"]
    ELSE IF file.text.t = "list"
    THEN AnalyzeArray(file.text, seed)
    ELSE IF file.text.t = "dict"
    THEN AnalyzeObject(file.text)
    ELSE [recommendation |-> "nosql", reason |-> "Simple scalar data type"]

\* analyze_json_file without its except clauses
AnalyzeJsonFile_NoCatch(file, seed) == AnalyzeTry(file, seed)

AnalyzeJsonFile(file, seed) ==
    LET r == AnalyzeTry(file, seed)
    IN  IF "raised" \notin DOMAIN r
        THEN r
        ELSE IF r.raised = "JSONDecodeError"
        THEN [recommendation |-> "nosql", reason |-> "Invalid JSON"]
        ELSE [recommendation |-> "nosql", reason |-> "Analysis error"]

\* analysis.get("columns", analysis.get("keys", []))
VerdictColumns(analysis) ==
    IF "columns" \in DOMAIN analysis
    THEN analysis.columns
    ELSE IF "keys" \in DOMAIN analysis THEN analysis.keys ELSE <<>>

----------------------------------------------------------------------------
(* Bounded input domain of the classifier *)

\* largest number of generated keys k01, k02, ... of a wide mapping
MaxWideKeys == 51
\* length of the long sequences (one more than the sample)
LongListLen == 11

SmallSize == 64

One == Scalar("1")
Atoms == {One, Dict(<<>>), List(<<>>)}
SmallKeys == {<<"a">>, <<"b">>}

Dict1(S) == { Dict(<< <<k, x>> >>) : k \in SmallKeys, x \in S }
Dict2(S) == { Dict(<< <<k[1], x>>, <<k[2], y>> >>) :
                k \in {<<<<"a">>, <<"b">>>>, <<<<"b">>, <<"a">>>>}, x \in S, y \in S }
List1(S) == { List(<<x>>) : x \in S }
List2(S) == { List(<<x, y>>) : x \in S, y \in S }

Level1 == Atoms \cup Dict1(Atoms) \cup Dict2(Atoms) \cup List1(Atoms) \cup List2(Atoms)
Level2 == Level1 \cup Dict1(Level1) \cup Dict2(Level1) \cup List1(Level1) \cup List2(Level1)

WideKey(i) == <<"k">> \o TwoDigits(i)

ExtraKeys == { <<>>,
               <<KeyId>>,
               <<<<"I", "D">>>>,
               <<<<"_", "I", "D">>>>,
               <<<<"x", "_", "i", "d">>>>,
               <<<<"x", "_", "I", "D">>>>,
               <<<<"i", "d", "x">>>> }

\* a flat mapping of n generated keys followed by the keys of extra
WideDict(n, extra) ==
    Dict([i \in 1..(n + Len(extra)) |->
            IF i <= n THEN <<WideKey(i), One>> ELSE <<extra[i - n], One>>])

WideSizes == {SmallColumnCount - 1, SmallColumnCount, SmallColumnCount + 1,
              MaxSqlColumns - 1, MaxSqlColumns, MaxSqlColumns + 1} \cap 0..MaxWideKeys

WideDicts == { WideDict(n, e) : n \in WideSizes, e \in ExtraKeys }

\* w repeated, with the element at position p replaced by other
LongList(w, p, other) ==
    List([i \in 1..LongListLen |-> IF i = p THEN other ELSE w])

LongLists ==
    { LongList(w, p, o) :
        w \in Dict1({One}) \cup { WideDict(n, <<>>) : n \in WideSizes },
        p \in {SampleSize, LongListLen},
        o \in {One, Dict(<< <<<<"z">>, One>> >>)} }

Documents ==
    Level2 \cup WideDicts \cup List1(WideDicts) \cup LongLists
      \cup { Dict(<< <<<<"a">>, w>> >>) : w \in List1(WideDicts) }

ClassifyInputs ==
    { [exists |-> TRUE, size |-> SmallSize, text |-> d] : d \in Documents }
      \cup { [exists |-> e, size |-> sz, text |-> x] :
               e \in BOOLEAN,
               sz \in {SmallSize, AnalyzeSizeLimit, AnalyzeSizeLimit + 1},
               x \in { [t |-> "invalid", v |-> <<>>], [t |-> "unreadable", v |-> <<>>],
                       One, Dict(<< <<KeyId, One>> >>) } }

HashSeeds == {0, 1}

----------------------------------------------------------------------------
(* Payloads, digests, declared names of the storage model *)

\* number of concurrent ingests (requests and bulk-upload tasks)
MaxTasks == 2
\* payloads are numbered 1..MaxPayload
MaxPayload == 4
\* the clock runs over the seconds 0..MaxTime
MaxTime == 1
\* listings ask for limit 1..MaxLimit at offset 0..MaxOffset
MaxLimit == 2
MaxOffset == 1

HexLen == 32
PrefixLen == 8
LongSize == 128
\* 50 * 1024 * 1024
UploadSizeLimit == 52428800

Tasks == 1..MaxTasks
Payloads == 1..MaxPayload

\* bytes 0 is the empty file, EmptyBytes; Garbled is what overlapping writes
\* of a longer and then a shorter payload leave in a file, GarbledHuge the
\* same when the longer payload was over the upload limit
EmptyBytes == 0
Garbled == -1
GarbledHuge == -2

\* len(content): payload 4 is one byte over the upload limit
Size(b) ==
    CASE b = EmptyBytes  -> 0
      [] b = Garbled     -> LongSize
      [] b = GarbledHuge -> UploadSizeLimit + 1
      [] b = 3           -> LongSize
      [] b = 4           -> UploadSizeLimit + 1
      [] OTHER           -> SmallSize

\* json.load of the payload
PayloadText(b) ==
    CASE b = 1 -> Dict(<< <<KeyId, One>> >>)
      [] b = 2 -> List(<<Dict(<< <<KeyId, One>>, <<<<"v">>, One>> >>)>>)
      [] b = 3 -> Dict(<< <<KeyId, One>>,
                          <<<<"m">>, Dict(<< <<<<"t">>, List(<<One>>)>> >>)>> >>)
      [] b = 5 -> List(<<One>>)
      [] b \in 6..9 -> Dict(<< <<<<"n">>, One>> >>)
      [] OTHER -> [t |-> "invalid", v |-> <<>>]

\* hashlib.md5(...).hexdigest() as a table: digests are distinct per payload;
\* payloads 1 and 2 share their first eight characters
Md5(b) ==
    LET head == CASE b = EmptyBytes  -> "0"
                  [] b = Garbled     -> "f"
                  [] b = GarbledHuge -> "e"
                  [] b \in {1, 2}    -> "a"
                  [] b = 3           -> "b"
                  [] b = 4           -> "c"
                  [] OTHER           -> "d"
        tail == IF b \in {Garbled, GarbledHuge} THEN "f" ELSE DigitChar(b % 10)
    IN  [i \in 1..HexLen |-> IF i <= PrefixLen THEN head ELSE tail]

NameA       == <<"a">> \o DotJson
NameDigest1 == Md5(1) \o DotJson
NameTxt     == <<"a", ".", "t", "x", "t">>
NameUpper   == <<"a", ".", "J", "S", "O", "N">>

\* file.filename of the requests
FileNames == {NameA, NameDigest1, NameTxt, NameUpper}

\* datetime.now().strftime("%Y%m%d_%H%M%S") at second t of the modelled minute
Strftime(t) ==
    <<"2", "0", "2", "5", "0", "1", "0", "1", "_", "0", "0", "0", "0">> \o TwoDigits(t)

----------------------------------------------------------------------------
VARIABLES
    hashseed,   \* the process's string-hash seed (fixes list(set) orders)
    cfile,      \* the file handed to analyze_json_file
    cverdict,   \* what analyze_json_file returned
    cpc,        \* "input" before the call, "done" after it
    now,        \* the clock, in seconds
    inodes,     \* contents of the files, by inode number
    temp_path,  \* app/storage/temp: name -> inode
    sql_path,   \* app/storage/databases/sql: name -> inode
    nosql_path, \* app/storage/databases/nosql: name -> inode
    schema_path,\* app/storage/internal_databases/schemas: name -> inode
    tasks       \* the requests / bulk-upload coroutines

cvars == <<hashseed, cfile, cverdict, cpc>>
svars == <<now, inodes, temp_path, sql_path, nosql_path, schema_path, tasks>>
vars == <<hashseed, cfile, cverdict, cpc,
          now, inodes, temp_path, sql_path, nosql_path, schema_path, tasks>>

NoVerdict == [none |-> TRUE]
NoResponse == [none |-> TRUE]
NoQuery == [none |-> TRUE]
Freed == [freed |-> TRUE]

EmptyDir == [n \in {} |-> 0]

IdleTask ==
    [pc |-> "idle", kind |-> "none", filename |-> <<>>, content |-> EmptyBytes,
     fd |-> 0, after |-> {}, analysis |-> NoVerdict, failed_at |-> "none",
     query |-> NoQuery, response |-> NoResponse]

\* the state after JSONAnalyzer.__init__: the four directories exist, empty
StorageInit ==
    /\ now = 0
    /\ inodes = <<>>
    /\ temp_path = EmptyDir
    /\ sql_path = EmptyDir
    /\ nosql_path = EmptyDir
    /\ schema_path = EmptyDir
    /\ tasks = [t \in Tasks |-> IdleTask]

----------------------------------------------------------------------------
(* File system *)

Unlink(dir, name) == [n \in DOMAIN dir \ {name} |-> dir[n]]

\* open(path, "w") followed by the write of content: an existing file keeps
\* its inode, a new one gets the next inode number
WriteFile(dir, ino, name, content) ==
    IF name \in DOMAIN dir
    THEN [dir |-> dir, ino |-> [ino EXCEPT ![dir[name]] = content]]
    ELSE [dir |-> (name :> (Len(ino) + 1)) @@ dir, ino |-> Append(ino, content)]

Range(f) == { f[x] : x \in DOMAIN f }

\* inodes no directory names and no task holds open are gone
Sweep(ino, temp, sql, nosql, schema, tk) ==
    LET live == Range(temp) \cup Range(sql) \cup Range(nosql) \cup Range(schema)
                  \cup { tk[t].fd : t \in DOMAIN tk }
    IN  [i \in 1..Len(ino) |-> IF i \in live THEN ino[i] ELSE Freed]

\* bytes in a file after b is written at offset 0 over old
Overlay(old, b) ==
    IF Size(b) >= Size(old)
    THEN b
    ELSE IF Size(old) > LongSize THEN GarbledHuge ELSE Garbled

----------------------------------------------------------------------------
(* JSONAnalyzer: storage *)

BucketOf(storage_type) == IF storage_type = "sql" THEN sql_path ELSE nosql_path

\* the names _check_duplicate can return: the first match of the scan of the
\* bucket in directory order, or "" when nothing matches
CheckDuplicate(file_hash, storage_type) ==
    LET storage_path == BucketOf(storage_type)
        matches == { n \in DOMAIN storage_path :
                       /\ EndsWith(n, DotJson)
                       /\ ~ EndsWith(n, DotMetaJson)
                       /\ ~ EndsWith(n, DotSchemaJson)
                       /\ Contains(n, file_hash) }
    IN  IF matches = {} THEN {<<>>} ELSE matches

\* str.upper() of the two recommendations
Upper(storage_type) == IF storage_type = "sql" THEN "SQL" ELSE "NOSQL"

\* _save_metadata writing the schema next to the metadata, in the bucket
SaveMetadata_SchemaInBucket(bucket, schema, ino, new_name, analysis, original_name, io) ==
    IF io = "meta"
    THEN [bucket |-> bucket, schema |-> schema, ino |-> ino, raised |-> "meta"]
    ELSE LET metadata == [original_filename |-> original_name,
                          analysis |-> analysis,
                          analyzed_at |-> now,
                          file_size |-> Size(ino[bucket[new_name]].bytes)]
             m == WriteFile(bucket, ino, WithSuffix(new_name, DotMetaJson), metadata)
         IN  IF io = "schema"
             THEN [bucket |-> m.dir, schema |-> schema, ino |-> m.ino, raised |-> "schema"]
             ELSE LET schema_info == [original_filename |-> original_name,
                                      storage_type |-> analysis.recommendation,
                                      columns |-> VerdictColumns(analysis),
                                      reason |-> analysis.reason,
                                      analyzed_at |-> now]
                      sc == WriteFile(m.dir, m.ino,
                                      Stem(new_name) \o DotSchemaJson, schema_info)
                  IN  [bucket |-> sc.dir, schema |-> schema, ino |-> sc.ino,
                       raised |-> "none"]

\* _save_metadata(final_path, analysis, original_name); io tells which write,
\* if any, raises. Returns the directories, the inodes and what was raised.
SaveMetadata(bucket, schema, ino, new_name, analysis, original_name, io) ==
    IF io = "meta"
    THEN [bucket |-> bucket, schema |-> schema, ino |-> ino, raised |-> "meta"]
    ELSE LET metadata == [original_filename |-> original_name,
                          analysis |-> analysis,
                          analyzed_at |-> now,
                          file_size |-> Size(ino[bucket[new_name]].bytes)]
             m == WriteFile(bucket, ino, WithSuffix(new_name, DotMetaJson), metadata)
         IN  IF io = "schema"
             THEN [bucket |-> m.dir, schema |-> schema, ino |-> m.ino, raised |-> "schema"]
             ELSE LET schema_info == [original_filename |-> original_name,
                                      storage_type |-> analysis.recommendation,
                                      columns |-> VerdictColumns(analysis),
                                      reason |-> analysis.reason,
                                      analyzed_at |-> now]
                      sc == WriteFile(schema, m.ino,
                                      Stem(new_name) \o DotSchemaJson, schema_info)
                  IN  [bucket |-> m.dir, schema |-> sc.dir, ino |-> sc.ino,
                       raised |-> "none"]

\* the except clause without the unlink of the temp file
StoreFailed_KeepsTemp(tname, sql, nosql, schema, ino, what) ==
    [temp |-> temp_path, sql |-> sql, nosql |-> nosql,
     schema |-> schema, ino |-> ino, failed_at |-> what,
     result |-> [success |-> FALSE, error |-> what]]

\* the except clause of store_json_file: unlink the temp file, report failure
StoreFailed(tname, sql, nosql, schema, ino, what) ==
    [temp |-> Unlink(temp_path, tname), sql |-> sql, nosql |-> nosql,
     schema |-> schema, ino |-> ino, failed_at |-> what,
     result |-> [success |-> FALSE, error |-> what]]

\* the duplicate branch without the unlink of the temp file
DuplicateFound_KeepsTemp(tname, original_name, analysis, duplicate) ==
    [temp |-> temp_path, sql |-> sql_path,
     nosql |-> nosql_path, schema |-> schema_path, ino |-> inodes,
     failed_at |-> "none",
     result |-> [success |-> TRUE,
                 original_name |-> original_name,
                 stored_name |-> duplicate,
                 storage_type |-> Upper(analysis.recommendation),
                 final_path |-> <<analysis.recommendation, duplicate>>,
                 reason |-> analysis.reason,
                 duplicate |-> TRUE]]

\* the duplicate branch of store_json_file: the temp file is unlinked and the
\* existing entry is reported
DuplicateFound(tname, original_name, analysis, duplicate) ==
    [temp |-> Unlink(temp_path, tname), sql |-> sql_path,
     nosql |-> nosql_path, schema |-> schema_path, ino |-> inodes,
     failed_at |-> "none",
     result |-> [success |-> TRUE,
                 original_name |-> original_name,
                 stored_name |-> duplicate,
                 storage_type |-> Upper(analysis.recommendation),
                 final_path |-> <<analysis.recommendation, duplicate>>,
                 reason |-> analysis.reason,
                 duplicate |-> TRUE]]

\* store_json_file writing the side-records before it moves the file
StoreWith_RecordsFirst(tname, original_name, analysis, io, file_hash, duplicate) ==
    LET recommendation == analysis.recommendation
        name_stem == Stem(original_name)
        extension == Suffix(original_name)
    IN  IF duplicate # <<>>
        THEN DuplicateFound(tname, original_name, analysis, duplicate)
        ELSE LET timestamp == Strftime(now)
                 new_name == name_stem \o <<"_">> \o timestamp \o <<"_">>
                               \o SubSeq(file_hash, 1, PrefixLen) \o extension
                 storage_type == IF recommendation = "sql" THEN "SQL" ELSE "NoSQL"
                 old == BucketOf(recommendation)
                 moved == (new_name :> temp_path[tname]) @@ old
                 sm == SaveMetadata(moved, schema_path, inodes, new_name,
                                    analysis, original_name,
                                    IF io = "move" THEN "none" ELSE io)
                 bucket == IF io = "move"
                           THEN [n \in (DOMAIN sm.bucket \ {new_name})
                                         \cup (DOMAIN old \cap {new_name}) |->
                                    IF n = new_name THEN old[n] ELSE sm.bucket[n]]
                           ELSE sm.bucket
                 sql == IF recommendation = "sql" THEN bucket ELSE sql_path
                 nosql == IF recommendation = "sql" THEN nosql_path ELSE bucket
             IN  IF io = "move"
                 THEN StoreFailed(tname, sql, nosql, sm.schema, sm.ino, "move")
                 ELSE IF sm.raised # "none"
                 THEN StoreFailed(tname, sql, nosql, sm.schema, sm.ino, sm.raised)
                 ELSE [temp |-> Unlink(temp_path, tname), sql |-> sql,
                       nosql |-> nosql, schema |-> sm.schema, ino |-> sm.ino,
                       failed_at |-> "none",
                       result |-> [success |-> TRUE,
                                   original_name |-> original_name,
                                   stored_name |-> new_name,
                                   storage_type |-> storage_type,
                                   final_path |-> <<recommendation, new_name>>,
                                   reason |-> analysis.reason,
                                   file_hash |-> file_hash,
                                   timestamp |-> timestamp]]

\* store_json_file(file_path, original_name, analysis) when _check_duplicate
\* returns duplicate; io tells which file operation, if any, raises
StoreWith(tname, original_name, analysis, io, file_hash, duplicate) ==
    LET recommendation == analysis.recommendation
        name_stem == Stem(original_name)
        extension == Suffix(original_name)
    IN  IF duplicate # <<>>
        THEN DuplicateFound(tname, original_name, analysis, duplicate)
        ELSE LET timestamp == Strftime(now)
                 new_name == name_stem \o <<"_">> \o timestamp \o <<"_">>
                               \o SubSeq(file_hash, 1, PrefixLen) \o extension
                 storage_type == IF recommendation = "sql" THEN "SQL" ELSE "NoSQL"
             IN  IF io = "move"
                 THEN StoreFailed(tname, sql_path, nosql_path, schema_path, inodes, "move")
                 ELSE LET moved == (new_name :> temp_path[tname]) @@ BucketOf(recommendation)
                          sm == SaveMetadata(moved, schema_path, inodes, new_name,
                                             analysis, original_name, io)
                          sql == IF recommendation = "sql" THEN sm.bucket ELSE sql_path
                          nosql == IF recommendation = "sql" THEN nosql_path ELSE sm.bucket
                      IN  IF sm.raised # "none"
                          THEN StoreFailed(tname, sql, nosql, sm.schema, sm.ino, sm.raised)
                          ELSE [temp |-> Unlink(temp_path, tname), sql |-> sql,
                                nosql |-> nosql, schema |-> sm.schema, ino |-> sm.ino,
                                failed_at |-> "none",
                                result |-> [success |-> TRUE,
                                            original_name |-> original_name,
                                            stored_name |-> new_name,
                                            storage_type |-> storage_type,
                                            final_path |-> <<recommendation, new_name>>,
                                            reason |-> analysis.reason,
                                            file_hash |-> file_hash,
                                            timestamp |-> timestamp]]

\* the outcomes of store_json_file(file_path, original_name, analysis)
StoreJsonFile(tname, original_name, analysis, io) ==
    IF tname \notin DOMAIN temp_path \/ io = "hash"
    THEN {StoreFailed(tname, sql_path, nosql_path, schema_path, inodes, "hash")}
    ELSE LET file_hash == Md5(inodes[temp_path[tname]].bytes)
         IN  { StoreWith(tname, original_name, analysis, io, file_hash, duplicate) :
                 duplicate \in CheckDuplicate(file_hash, analysis.recommendation) }

IoOutcomes == {"none", "hash", "move", "meta", "schema"}

InitClassify ==
    /\ hashseed \in HashSeeds
    /\ cfile \in ClassifyInputs
    /\ cverdict = NoVerdict
    /\ cpc = "input"
    /\ StorageInit

Classify ==
    /\ cpc = "input"
    /\ cverdict' = AnalyzeJsonFile(cfile, hashseed)
    /\ cpc' = "done"
    /\ UNCHANGED <<hashseed, cfile>>
    /\ UNCHANGED svars

NextClassify == Classify

SpecClassify == InitClassify /\ [][NextClassify]_vars

----------------------------------------------------------------------------
(* Routes: upload_json and the process_single_file tasks of bulk_upload_json *)

TempPrefix(kind) ==
    IF kind = "single" THEN <<"t", "e", "m", "p", "_">> ELSE <<"b", "u", "l", "k", "_">>

\* temp_dir / f"temp_{file.filename}", temp_dir / f"bulk_{file.filename}"
TempName(kind, filename) == TempPrefix(kind) \o filename

\* upload_json answering 200 whatever the result
UploadResponse_AlwaysOk(result, analysis) ==
    [status |-> 200, details |-> result, analysis |-> analysis]

\* what upload_json answers for a result of store_json_file
UploadResponse(result, analysis) ==
    IF result.success
    THEN [status |-> 200, details |-> result, analysis |-> analysis]
    ELSE [status |-> 500, detail |-> result.error]

\* the list of the bulk response a result of process_single_file ends in
BulkResponse(result) ==
    [list |-> IF result.success THEN "successful_files" ELSE "failed_files",
     result |-> result]

\* the file analyze_json_file finds at a temp name
FileAt(tname) ==
    IF tname \in DOMAIN temp_path
    THEN [exists |-> TRUE,
          size |-> Size(inodes[temp_path[tname]].bytes),
          text |-> PayloadText(inodes[temp_path[tname]].bytes)]
    ELSE [exists |-> FALSE, size |-> 0, text |-> [t |-> "invalid", v |-> <<>>]]

\* A request arrives and its body is read. upload_json rejects a name that
\* does not end in .json (400) and a body over the limit (413);
\* bulk_upload_json makes no task for a name that does not end in .json.
Request(t) ==
    /\ tasks[t].pc = "idle"
    /\ IF t = 1 THEN TRUE ELSE tasks[t - 1].pc # "idle"
    /\ \E kind \in {"single", "bulk"}, filename \in FileNames, content \in Payloads :
         LET req == [tasks[t] EXCEPT !.kind = kind, !.filename = filename,
                                     !.content = content,
                                     !.after = { u \in Tasks : tasks[u].pc = "done" }]
         IN  tasks' = [tasks EXCEPT ![t] =
                 IF ~ EndsWith(Lower(filename), DotJson)
                 THEN [req EXCEPT !.pc = "done",
                                  !.response = IF kind = "single"
                                               THEN [status |-> 400]
                                               ELSE [list |-> "none"]]
                 ELSE IF kind = "single" /\ Size(content) > UploadSizeLimit
                 THEN [req EXCEPT !.pc = "done", !.response = [status |-> 413]]
                 ELSE [req EXCEPT !.pc = "read"]]
    /\ UNCHANGED <<now, inodes, temp_path, sql_path, nosql_path, schema_path>>
    /\ UNCHANGED cvars

\* aiofiles.open(temp_file, "wb"): creates the temp file or truncates it
OpenTemp(t) ==
    /\ tasks[t].pc = "read"
    /\ LET tname == TempName(tasks[t].kind, tasks[t].filename)
           w == WriteFile(temp_path, inodes, tname, [bytes |-> EmptyBytes])
       IN  /\ temp_path' = w.dir
           /\ inodes' = w.ino
           /\ tasks' = [tasks EXCEPT ![t].pc = "opened", ![t].fd = w.dir[tname]]
    /\ UNCHANGED <<now, sql_path, nosql_path, schema_path>>
    /\ UNCHANGED cvars

\* await f.write(content) and the close of the file: the bytes reach the
\* inode the task opened, wherever that inode is linked by now
WriteTemp(t) ==
    /\ tasks[t].pc = "opened"
    /\ LET fd == tasks[t].fd
           tk == [tasks EXCEPT ![t].pc = "written", ![t].fd = 0]
           ino == [inodes EXCEPT ![fd] =
                     [bytes |-> Overlay(inodes[fd].bytes, tasks[t].content)]]
       IN  /\ tasks' = tk
           /\ inodes' = Sweep(ino, temp_path, sql_path, nosql_path, schema_path, tk)
    /\ UNCHANGED <<now, temp_path, sql_path, nosql_path, schema_path>>
    /\ UNCHANGED cvars

\* the write raises: upload_json unlinks the temp file if one exists and
\* answers 500; process_single_file returns a failure and unlinks nothing
WriteFails(t) ==
    /\ tasks[t].pc = "opened"
    /\ LET tname == TempName(tasks[t].kind, tasks[t].filename)
           single == tasks[t].kind = "single"
           temp == IF single THEN Unlink(temp_path, tname) ELSE temp_path
           tk == [tasks EXCEPT ![t].pc = "done", ![t].fd = 0,
                               ![t].failed_at = "write",
                               ![t].response =
                                   IF single
                                   THEN [status |-> 500, detail |-> "write"]
                                   ELSE BulkResponse([success |-> FALSE,
                                                      error |-> "write",
                                                      filename |-> tasks[t].filename])]
       IN  /\ temp_path' = temp
           /\ tasks' = tk
           /\ inodes' = Sweep(inodes, temp, sql_path, nosql_path, schema_path, tk)
    /\ UNCHANGED <<now, sql_path, nosql_path, schema_path>>
    /\ UNCHANGED cvars

\* analyze_json_file, store_json_file and the answer: one step, there is no
\* await between them
Process(t) ==
    /\ tasks[t].pc = "written"
    /\ LET tname == TempName(tasks[t].kind, tasks[t].filename)
           analysis == AnalyzeJsonFile(FileAt(tname), hashseed)
       IN  \E io \in IoOutcomes :
             \E out \in StoreJsonFile(tname, tasks[t].filename, analysis, io) :
               LET tk == [tasks EXCEPT ![t].pc = "done",
                                       ![t].analysis = analysis,
                                       ![t].failed_at = out.failed_at,
                                       ![t].response =
                                           IF tasks[t].kind = "single"
                                           THEN UploadResponse(out.result, analysis)
                                           ELSE BulkResponse(out.result)]
               IN  /\ tasks' = tk
                   /\ temp_path' = out.temp
                   /\ sql_path' = out.sql
                   /\ nosql_path' = out.nosql
                   /\ schema_path' = out.schema
                   /\ inodes' = Sweep(out.ino, out.temp, out.sql, out.nosql,
                                      out.schema, tk)
    /\ UNCHANGED now
    /\ UNCHANGED cvars

\* the names a loop of list_json_files keeps: path.glob("*.json") without
\* the names that end in .meta.json
Listed(dir) ==
    { n \in DOMAIN dir : EndsWith(n, DotJson) /\ ~ EndsWith(n, DotMetaJson) }

\* the orders in which a directory scan can deliver the names of S
Orderings(S) ==
    { order \in [1..Cardinality(S) -> S] : { order[i] : i \in DOMAIN order } = S }

\* file.stat().st_size
FileSize(file) == IF "bytes" \in DOMAIN file THEN Size(file.bytes) ELSE LongSize

\* get_file_metadata(file_path)
GetFileMetadata(dir, name) ==
    LET metadata_path == WithSuffix(name, DotMetaJson)
    IN  IF metadata_path \in DOMAIN dir THEN inodes[dir[metadata_path]] ELSE <<>>

\* list_json_files(category, limit, offset) when the two scans deliver the
\* names in the orders sql_order and nosql_order (modification times are not
\* part of the modelled file system)
ListJsonFiles(category, limit, offset, sql_order, nosql_order) ==
    LET entry(dir, n) == [filename |-> n,
                          size |-> FileSize(inodes[dir[n]]),
                          metadata |-> GetFileMetadata(dir, n)]
        sql_files == [i \in DOMAIN sql_order |-> entry(sql_path, sql_order[i])]
        nosql_files == [i \in DOMAIN nosql_order |-> entry(nosql_path, nosql_order[i])]
        files == IF category = "sql"
                 THEN sql_files
                 ELSE IF category = "nosql" THEN nosql_files
                 ELSE sql_files \o nosql_files
        total_files == Len(files)
    IN  [files |-> SubSeq(files, offset + 1, Min(offset + limit, total_files)),
         pagination |-> [total |-> total_files,
                         limit |-> limit,
                         offset |-> offset,
                         has_more |-> (offset + limit) < total_files],
         summary |-> [sql_files |-> Len(sql_files),
                      nosql_files |-> Len(nosql_files),
                      total_files |-> total_files]]

Categories == {"sql", "nosql", "none"}

\* GET /json/files: the handler reads the two buckets and answers
ListFiles(t) ==
    /\ tasks[t].pc = "idle"
    /\ IF t = 1 THEN TRUE ELSE tasks[t - 1].pc # "idle"
    /\ \E category \in Categories, limit \in 1..MaxLimit, offset \in 0..MaxOffset :
         \E sql_order \in Orderings(Listed(sql_path)),
            nosql_order \in Orderings(Listed(nosql_path)) :
           tasks' = [tasks EXCEPT ![t] =
               [@ EXCEPT !.pc = "done",
                         !.kind = "list",
                         !.after = { u \in Tasks : tasks[u].pc = "done" },
                         !.query = [category |-> category, limit |-> limit,
                                    offset |-> offset],
                         !.response = ListJsonFiles(category, limit, offset,
                                                    sql_order, nosql_order)]]
    /\ UNCHANGED <<now, inodes, temp_path, sql_path, nosql_path, schema_path>>
    /\ UNCHANGED cvars

Tick ==
    /\ now < MaxTime
    /\ now' = now + 1
    /\ UNCHANGED <<inodes, temp_path, sql_path, nosql_path, schema_path, tasks>>
    /\ UNCHANGED cvars

Init ==
    /\ hashseed \in HashSeeds
    /\ cfile = [exists |-> FALSE, size |-> 0, text |-> [t |-> "invalid", v |-> <<>>]]
    /\ cverdict = NoVerdict
    /\ cpc = "off"
    /\ StorageInit

Next ==
    \/ \E t \in Tasks : Request(t)
    \/ \E t \in Tasks : OpenTemp(t)
    \/ \E t \in Tasks : WriteTemp(t)
    \/ \E t \in Tasks : WriteFails(t)
    \/ \E t \in Tasks : Process(t)
    \/ \E t \in Tasks : ListFiles(t)
    \/ Tick

Spec == Init /\ [][Next]_vars

----------------------------------------------------------------------------
(* Properties of the classifier, checked under SpecClassify *)

\* the file was read and parsed, and the parsed value has type ty
ParsedAs(ty) ==
    /\ cfile.exists
    /\ cfile.size <= AnalyzeSizeLimit
    /\ cfile.text.t = ty

Malformed == cfile.exists /\ cfile.size <= AnalyzeSizeLimit /\ cfile.text.t = "invalid"

\* C7: analyze_json_file returns a verdict (a storage class and a reason) for
\* every input and never raises; a missing or unreadable file and a malformed
\* payload get the class nosql.
C7_AlwaysVerdict ==
    cpc = "done" =>
        /\ {"recommendation", "reason"} \subseteq DOMAIN cverdict
        /\ cverdict.recommendation \in {"sql", "nosql"}
        /\ (~ cfile.exists \/ cfile.text.t \in {"invalid", "unreadable"})
              => cverdict.recommendation = "nosql"

C7_Witness ==
    /\ cpc = "done"
    /\ Malformed
    /\ cverdict.recommendation = "nosql"
    /\ cverdict.reason = "Invalid JSON"

\* a first-level value that counts as nesting: a non-empty mapping, or a
\* non-empty sequence with a mapping or sequence among its elements
IsNestedValue(x) ==
    \/ x.t = "dict" /\ Len(x.v) >= 1
    \/ /\ x.t = "list"
       /\ { j \in 1..Len(x.v) : x.v[j].t = "dict" \/ x.v[j].t = "list" } # {}

\* C8: a parsed mapping is classified nosql iff one of its first-level values
\* is nested; otherwise it is sql and its columns are the top-level keys,
\* whatever their number.
C8_MappingVerdict ==
    (cpc = "done" /\ ParsedAs("dict")) =>
        LET d == cfile.text
            nested == { i \in 1..Len(d.v) : IsNestedValue(d.v[i][2]) }
        IN  /\ cverdict.recommendation = (IF nested # {} THEN "nosql" ELSE "sql")
            /\ nested = {} =>
                 SeqToSet(VerdictColumns(cverdict)) = { d.v[i][1] : i \in 1..Len(d.v) }

C8_Witness ==
    /\ cpc = "done"
    /\ ParsedAs("dict")
    /\ Len(cfile.text.v) > MaxSqlColumns
    /\ \A k \in SeqToSet(Keys(cfile.text)) : Lower(k) # KeyId /\ ~ EndsWith(k, KeyUndId)
    /\ cverdict.recommendation = "sql"
    /\ Len(VerdictColumns(cverdict)) = Len(cfile.text.v)

\* C9: a parsed sequence is classified sql iff it is non-empty, its first
\* min(10, length) elements are mappings with the key set of the first one,
\* and that key set passes the SQL-suitability rule; then estimated_rows is
\* the full length and columns is the first element's key set. Otherwise it
\* is nosql.
C9_SequenceVerdict ==
    (cpc = "done" /\ ParsedAs("list")) =>
        LET data == cfile.text.v
            k == IF Len(data) < SampleSize THEN Len(data) ELSE SampleSize
            keyset(x) == { x.v[i][1] : i \in 1..Len(x.v) }
            relational ==
                /\ Len(data) >= 1
                /\ \A i \in 1..k : data[i].t = "dict"
                /\ \A i \in 1..k : keyset(data[i]) = keyset(data[1])
                /\ IsSqlOptimized(SubSeq(data, 1, k), keyset(data[1]))
        IN  IF relational
            THEN /\ cverdict.recommendation = "sql"
                 /\ cverdict.estimated_rows = Len(data)
                 /\ SeqToSet(VerdictColumns(cverdict)) = keyset(data[1])
            ELSE cverdict.recommendation = "nosql"

\* a sequence longer than the sample whose element past the sample is not a
\* mapping, classified sql with every element counted
C9_Witness ==
    /\ cpc = "done"
    /\ ParsedAs("list")
    /\ Len(cfile.text.v) > SampleSize
    /\ cfile.text.v[Len(cfile.text.v)].t = "scalar"
    /\ cverdict.recommendation = "sql"
    /\ cverdict.estimated_rows = Len(cfile.text.v)

\* C10: a mapping classified nosql because of nesting reports a nesting_level
\* of at least 1.
C10_NestingLevelAtLeastOne ==
    (cpc = "done" /\ ParsedAs("dict") /\ cverdict.recommendation = "nosql") =>
        cverdict.nesting_level >= 1

\* the key set the SQL-suitability rule is applied to: that of the first
\* element of a parsed sequence whose sampled elements are mappings with one
\* key set
RuleApplies ==
    /\ cpc = "done"
    /\ ParsedAs("list")
    /\ Len(cfile.text.v) >= 1
    /\ \A i \in 1..Min(SampleSize, Len(cfile.text.v)) :
         /\ cfile.text.v[i].t = "dict"
         /\ SeqToSet(Keys(cfile.text.v[i])) = SeqToSet(Keys(cfile.text.v[1]))

RuleKeys == SeqToSet(Keys(cfile.text.v[1]))

\* C17 as stated: the key set is rejected when it has more than 50 keys;
\* otherwise it is accepted iff it has at most 20 keys or a key that equals
\* 'id' ignoring case or ends in '_id'.
C17_SqlSuitability ==
    RuleApplies =>
        ( cverdict.recommendation = "sql" <=>
            /\ Cardinality(RuleKeys) <= 50
            /\ \/ Cardinality(RuleKeys) <= 20
               \/ \E key \in RuleKeys : Lower(key) = <<"i", "d">>
               \/ \E key \in RuleKeys :
                    Len(key) >= 3 /\ SubSeq(key, Len(key) - 2, Len(key)) = <<"_", "i", "d">> )

\* C17 amended: an identifier-like key is one that equals 'id' or '_id'
\* ignoring case, or ends in '_id' as written (lower case).
C17_SqlSuitabilityAmended ==
    RuleApplies =>
        ( cverdict.recommendation = "sql" <=>
            /\ Cardinality(RuleKeys) <= 50
            /\ \/ Cardinality(RuleKeys) <= 20
               \/ \E key \in RuleKeys : Lower(key) = <<"i", "d">>
               \/ \E key \in RuleKeys : Lower(key) = <<"_", "i", "d">>
               \/ \E key \in RuleKeys :
                    Len(key) >= 3 /\ SubSeq(key, Len(key) - 2, Len(key)) = <<"_", "i", "d">> )

\* a key set of more than 20 and at most 50 keys accepted for its key '_ID'
C17_Witness ==
    /\ RuleApplies
    /\ Cardinality(RuleKeys) > 20
    /\ Cardinality(RuleKeys) <= 50
    /\ <<"_", "I", "D">> \in RuleKeys
    /\ cverdict.recommendation = "sql"

----------------------------------------------------------------------------
(* Properties of ingestion, checked under Spec *)

\* the ingest of task record tk ended with a successful PlacementResult
Succeeded(tk) ==
    /\ tk.pc = "done"
    /\ \/ tk.kind = "single" /\ "status" \in DOMAIN tk.response /\ tk.response.status = 200
       \/ /\ tk.kind = "bulk"
          /\ "result" \in DOMAIN tk.response
          /\ tk.response.list = "successful_files"

\* the result of store_json_file handed back by a successful ingest
ResultOf(tk) == IF tk.kind = "single" THEN tk.response.details ELSE tk.response.result

\* result.get("duplicate")
IsDuplicate(result) == "duplicate" \in DOMAIN result /\ result.duplicate

\* the ingest of task record tk ended with an explicit failure
ExplicitFailure(tk) ==
    /\ tk.pc = "done"
    /\ IF tk.kind = "single"
       THEN /\ DOMAIN tk.response = {"status", "detail"}
            /\ tk.response.status = 500
       ELSE /\ tk.response.list = "failed_files"
            /\ tk.response.result.success = FALSE
            /\ "error" \in DOMAIN tk.response.result

Bucket(sql, nosql, storage_type) == IF storage_type = "sql" THEN sql ELSE nosql

IsPayloadFile(file) == "bytes" \in DOMAIN file
IsMetadataRecord(file) == {"original_filename", "analysis", "file_size"} \subseteq DOMAIN file
IsSchemaRecord(file) == {"original_filename", "storage_type", "columns"} \subseteq DOMAIN file

\* the bucket entries (stored documents) of a class
Entries(storage_type) ==
    { n \in DOMAIN BucketOf(storage_type) :
        IsPayloadFile(inodes[BucketOf(storage_type)[n]]) }

\* task t takes the step from the written temp file to its answer
Completes(t) == tasks[t].pc = "written" /\ tasks'[t].pc = "done"

\* the buckets and the schema store, names and contents, are as before
StoresUnchanged ==
    /\ sql_path' = sql_path
    /\ nosql_path' = nosql_path
    /\ schema_path' = schema_path
    /\ \A i \in Range(sql_path) \cup Range(nosql_path) \cup Range(schema_path) :
         inodes'[i] = inodes[i]

\* C1: a payload ingested a second time, after the first ingest succeeded,
\* under the same declared name and with the same storage class, is reported
\* as a duplicate, and the bucket holds one entry with these bytes.
C1_IdempotentDedup ==
    \A t1 \in Tasks, t2 \in Tasks :
        ( /\ Succeeded(tasks[t1])
          /\ tasks[t2].pc = "done"
          /\ t1 \in tasks[t2].after
          /\ tasks[t2].filename = tasks[t1].filename
          /\ tasks[t2].content = tasks[t1].content
          /\ tasks[t2].failed_at = "none"
          /\ tasks[t2].analysis # NoVerdict
          /\ tasks[t2].analysis.recommendation = tasks[t1].analysis.recommendation )
        => /\ Succeeded(tasks[t2])
           /\ IsDuplicate(ResultOf(tasks[t2]))
           /\ Cardinality({ n \in Entries(tasks[t1].analysis.recommendation) :
                  inodes[BucketOf(tasks[t1].analysis.recommendation)[n]].bytes
                     = tasks[t1].content }) = 1

\* C2: no bucket ever holds two entries with identical bytes.
C2_AtMostOneCopy ==
    \A st \in {"sql", "nosql"} :
        \A n1 \in Entries(st), n2 \in Entries(st) :
            n1 # n2 => inodes[BucketOf(st)[n1]].bytes # inodes[BucketOf(st)[n2]].bytes

\* C3: after a successful placement that is no duplicate, the bucket holds the
\* entry, one metadata record <stem>.meta.json beside it, and the schema store
\* one schema record <stem>.schema.json, <stem> being the stored name without
\* its extension.
C3_SideRecords ==
    \A t \in Tasks :
        (Succeeded(tasks[t]) /\ ~ IsDuplicate(ResultOf(tasks[t]))) =>
            LET r == ResultOf(tasks[t])
                bucket == BucketOf(tasks[t].analysis.recommendation)
                ext == Suffix(r.original_name)
                stem == SubSeq(r.stored_name, 1, Len(r.stored_name) - Len(ext))
                meta == { n \in DOMAIN bucket : n = stem \o DotMetaJson }
                schemas == { n \in DOMAIN schema_path : n = stem \o DotSchemaJson }
            IN  /\ r.stored_name \in DOMAIN bucket
                /\ r.stored_name = stem \o ext
                /\ Cardinality(meta) = 1
                /\ \A n \in meta : IsMetadataRecord(inodes[bucket[n]])
                /\ Cardinality(schemas) = 1
                /\ \A n \in schemas : IsSchemaRecord(inodes[schema_path[n]])
                /\ \A n \in DOMAIN bucket : ~ IsSchemaRecord(inodes[bucket[n]])

C3_Witness ==
    \E t \in Tasks :
        /\ Succeeded(tasks[t])
        /\ ~ IsDuplicate(ResultOf(tasks[t]))
        /\ ResultOf(tasks[t]).stored_name \in DOMAIN nosql_path
        /\ schema_path # EmptyDir

\* C4: a placement that finds a duplicate removes the temp file, answers
\* success with the duplicate flag and the name and path of the existing
\* entry, and leaves both buckets and the schema store as they were.
C4_DuplicateFrame ==
    [][ \A t \in Tasks :
          (Completes(t) /\ Succeeded(tasks'[t]) /\ IsDuplicate(ResultOf(tasks'[t]))) =>
              LET r == ResultOf(tasks'[t])
                  st == tasks'[t].analysis.recommendation
              IN  /\ TempName(tasks[t].kind, tasks[t].filename) \notin DOMAIN temp_path'
                  /\ r.success
                  /\ r.stored_name \in Entries(st)
                  /\ r.final_path = <<st, r.stored_name>>
                  /\ StoresUnchanged ]_vars

C4_Witness ==
    \E t \in Tasks :
        /\ Succeeded(tasks[t])
        /\ IsDuplicate(ResultOf(tasks[t]))
        /\ ResultOf(tasks[t]).stored_name \in DOMAIN sql_path

\* C5: when fingerprinting or relocation fails, placement answers success =
\* false with an error, the temp file is gone, and the buckets and the schema
\* store are as they were.
C5_RelocationFailure ==
    [][ \A t \in Tasks :
          (Completes(t) /\ tasks'[t].failed_at \in {"hash", "move"}) =>
              /\ ExplicitFailure(tasks'[t])
              /\ TempName(tasks[t].kind, tasks[t].filename) \notin DOMAIN temp_path'
              /\ StoresUnchanged ]_vars

\* a relocation failed while the temp file was there
C5_Witness ==
    \E t \in Tasks :
        /\ tasks[t].pc = "done"
        /\ tasks[t].failed_at = "move"
        /\ ExplicitFailure(tasks[t])

\* C6: when a side-record write fails after the relocation, the relocated
\* payload stays in the bucket and the caller gets an explicit failure (500
\* on single upload, failed_files on bulk upload), never a success.
C6_SideRecordFailure ==
    [][ \A t \in Tasks :
          (Completes(t) /\ tasks'[t].failed_at \in {"meta", "schema"}) =>
              LET ino == temp_path[TempName(tasks[t].kind, tasks[t].filename)]
                  bucket == Bucket(sql_path', nosql_path',
                                   tasks'[t].analysis.recommendation)
              IN  /\ \E n \in DOMAIN bucket : bucket[n] = ino
                  /\ inodes'[ino] = inodes[ino]
                  /\ ExplicitFailure(tasks'[t])
                  /\ ~ Succeeded(tasks'[t]) ]_vars

C6_Witness ==
    \E t \in Tasks :
        /\ tasks[t].pc = "done"
        /\ tasks[t].kind = "single"
        /\ tasks[t].failed_at = "schema"
        /\ tasks[t].response.status = 500
        /\ \E n \in DOMAIN nosql_path : IsMetadataRecord(inodes[nosql_path[n]])
        /\ schema_path = EmptyDir

\* the bytes of the entry named n of a bucket
BytesOf(storage_type, n) == inodes[BucketOf(storage_type)[n]].bytes

\* C12: every bucket entry is named <stem>_<timestamp>_<prefix><extension>,
\* <stem> and <extension> those of a declared name and <prefix> the first
\* eight characters of the digest of the entry's own content.
C12_NameCarriesOwnPrefix ==
    \A st \in {"sql", "nosql"} :
        \A n \in Entries(st) :
            \E f \in FileNames, ts \in 0..MaxTime :
                n = Stem(f) \o <<"_">> \o Strftime(ts) \o <<"_">>
                      \o SubSeq(Md5(BytesOf(st, n)), 1, PrefixLen) \o Suffix(f)

\* the request of task record tk carries a payload over the upload limit
Oversize(tk) == tk.kind \in {"single", "bulk"} /\ Size(tk.content) > UploadSizeLimit

\* C13: a payload over the limit is rejected before classification on the
\* single and on the bulk path: its ingest gets no verdict, no bucket holds
\* an entry of that size, and once the ingest is over no temp file of its
\* name holds bytes of that size.
C13_OversizeRejected ==
    /\ \A t \in Tasks :
         Oversize(tasks[t]) =>
             LET tname == TempName(tasks[t].kind, tasks[t].filename)
             IN  /\ tasks[t].analysis = NoVerdict
                 /\ ~ Succeeded(tasks[t])
                 /\ (tasks[t].pc = "done" /\ tname \in DOMAIN temp_path) =>
                      Size(inodes[temp_path[tname]].bytes) <= UploadSizeLimit
    /\ \A st \in {"sql", "nosql"} :
         \A n \in Entries(st) : Size(BytesOf(st, n)) <= UploadSizeLimit

\* the request of task record tk passed the checks of its route: it is an ingest
Accepted(tk) ==
    /\ tk.kind \in {"single", "bulk"}
    /\ EndsWith(Lower(tk.filename), DotJson)
    /\ ~ (tk.kind = "single" /\ Size(tk.content) > UploadSizeLimit)

\* neither of the two requests was over when the other arrived
Concurrent(t1, t2) ==
    /\ t1 # t2
    /\ t1 \notin tasks[t2].after
    /\ t2 \notin tasks[t1].after

\* no file operation of the ingest was made to fail by the file system (an
\* ingest that found its temp file gone has the verdict "Analysis error")
NoIoFailure(tk) ==
    \/ tk.failed_at = "none"
    \/ tk.failed_at = "hash" /\ tk.analysis.reason = "Analysis error"

\* the ingest succeeded and the bucket of its class has an entry with its bytes
StoredOwnBytes(tk) ==
    /\ Succeeded(tk)
    /\ \E n \in Entries(tk.analysis.recommendation) :
         BytesOf(tk.analysis.recommendation, n) = tk.content

\* C14: two concurrent ingests of payloads with different digests, whatever
\* their declared names, both end in success, each with a bucket entry that
\* holds exactly the bytes it submitted (file-system failures apart).
C14_NoContention ==
    \A t1 \in Tasks, t2 \in Tasks :
        ( /\ Concurrent(t1, t2)
          /\ Accepted(tasks[t1]) /\ Accepted(tasks[t2])
          /\ tasks[t1].pc = "done" /\ tasks[t2].pc = "done"
          /\ NoIoFailure(tasks[t1]) /\ NoIoFailure(tasks[t2])
          /\ Md5(tasks[t1].content) # Md5(tasks[t2].content) )
        => StoredOwnBytes(tasks[t1]) /\ StoredOwnBytes(tasks[t2])

\* the stored documents a listing with this category has to enumerate, each
\* with its class
Enumerated(category) ==
    UNION { { <<st, n>> : n \in Entries(st) } :
              st \in (IF category \in {"sql", "nosql"}
                      THEN {category} ELSE {"sql", "nosql"}) }

\* response r answers query q: a page of an enumeration of exactly the stored
\* documents of the category, with their number and the has_more flag
ListingCorrect(q, r) ==
    LET E == Enumerated(q.category)
        total == Cardinality(E)
        last == Min(q.offset + q.limit, total)
    IN  /\ r.pagination.total = total
        /\ r.pagination.has_more <=> (total > q.offset + q.limit)
        /\ \E en \in Orderings(E) :
             /\ Len(r.files) = (IF last > q.offset THEN last - q.offset ELSE 0)
             /\ \A i \in 1..Len(r.files) : r.files[i].filename = en[q.offset + i][2]

\* C15: a listing with a class filter enumerates exactly the stored documents
\* of that class, without a filter those of both classes, never a side-record;
\* it returns positions offset..offset+limit-1 of the enumeration, total is
\* the number of enumerated entries and has_more tells whether entries lie
\* beyond the page.
C15_Listing ==
    [][ \A t \in Tasks :
          (tasks[t].pc = "idle" /\ tasks'[t].kind = "list") =>
              ListingCorrect(tasks'[t].query, tasks'[t].response) ]_vars

\* the contents a temp file can have when store_json_file hashes it
HashedBytes == Payloads \cup {EmptyBytes, Garbled, GarbledHuge}

\* C16: _check_duplicate(file_hash, storage_type) returns a path iff the
\* bucket of that class holds a stored document whose name contains the first
\* eight characters of file_hash, and what it returns is such a document.
C16_FindDuplicate ==
    \A b \in HashedBytes, st \in {"sql", "nosql"} :
        LET found == CheckDuplicate(Md5(b), st) \ {<<>>}
            holders == { n \in Entries(st) :
                           Contains(n, SubSeq(Md5(b), 1, PrefixLen)) }
        IN  /\ found # {} <=> holders # {}
            /\ found \subseteq holders

\* C18: a bucket entry, once it exists with some content, exists under the
\* same name with the same content after every step.
C18_AppendOnly ==
    [][ \A st \in {"sql", "nosql"} :
          \A n \in Entries(st) :
              LET bucket == Bucket(sql_path', nosql_path', st)
              IN  /\ n \in DOMAIN bucket
                  /\ inodes'[bucket[n]] = inodes[BucketOf(st)[n]] ]_vars

\* C19: every metadata record of a bucket and every schema record of the
\* schema store has a stored document with the same stored-name stem: no
\* side-record is ever there without its document.
C19_SideRecordHasDocument ==
    /\ \A st \in {"sql", "nosql"} :
         \A n \in DOMAIN BucketOf(st) :
             IsMetadataRecord(inodes[BucketOf(st)[n]]) =>
                 \E d \in Entries(st) : Stem(d) \o DotMetaJson = n
    /\ \A n \in DOMAIN schema_path :
         \E st \in {"sql", "nosql"} :
             \E d \in Entries(st) : Stem(d) \o DotSchemaJson = n

\* side-records of one placement are there, and the relocation of another
\* ingest has failed
C19_Witness ==
    /\ \E n \in DOMAIN nosql_path : IsMetadataRecord(inodes[nosql_path[n]])
    /\ schema_path # EmptyDir
    /\ \E t \in Tasks : tasks[t].pc = "done" /\ tasks[t].failed_at = "move"

\* the stored documents of a class after the step
EntriesAfter(storage_type) ==
    { n \in DOMAIN Bucket(sql_path', nosql_path', storage_type) :
        IsPayloadFile(inodes'[Bucket(sql_path', nosql_path', storage_type)[n]]) }

OtherClass(storage_type) == IF storage_type = "sql" THEN "nosql" ELSE "sql"

\* C20: an ingest with a verdict of class C that is reported as a duplicate
\* names an entry of the bucket of C; a successful placement that is no
\* duplicate adds exactly one entry to the bucket of C and leaves the other
\* bucket, names and contents, as it was.
C20_ClassScoped ==
    [][ \A t \in Tasks :
          (Completes(t) /\ Succeeded(tasks'[t])) =>
              LET r == ResultOf(tasks'[t])
                  st == tasks'[t].analysis.recommendation
                  other == OtherClass(st)
              IN  IF IsDuplicate(r)
                  THEN /\ r.stored_name \in Entries(st)
                       /\ r.final_path = <<st, r.stored_name>>
                  ELSE /\ r.stored_name \notin Entries(st)
                       /\ EntriesAfter(st) = Entries(st) \cup {r.stored_name}
                       /\ Bucket(sql_path', nosql_path', other) = BucketOf(other)
                       /\ \A i \in Range(BucketOf(other)) : inodes'[i] = inodes[i] ]_vars

\* the field names of a parsed document in order of first appearance: the
\* keys of the first element of a sequence, the top-level keys of a mapping
FirstSeenKeys(doc) ==
    IF doc.t = "list" THEN Keys(doc.v[1]) ELSE Keys(doc)

\* C21: the schema record written for a placed document has as columns the
\* field names in order of first appearance in the document when the verdict
\* is sql, and no columns when it is nosql.
C21_SchemaColumns ==
    [][ \A t \in Tasks :
          ( /\ Completes(t)
            /\ Succeeded(tasks'[t])
            /\ ~ IsDuplicate(ResultOf(tasks'[t])) ) =>
              LET tname == TempName(tasks[t].kind, tasks[t].filename)
                  doc == PayloadText(inodes[temp_path[tname]].bytes)
                  stored_name == ResultOf(tasks'[t]).stored_name
                  record == inodes'[schema_path'[Stem(stored_name) \o DotSchemaJson]]
              IN  record.columns =
                      IF tasks'[t].analysis.recommendation = "sql"
                      THEN FirstSeenKeys(doc)
                      ELSE <<>> ]_vars

\* C22: when an ingest answers success, the entry its result names, in the
\* bucket of its class, holds exactly the bytes that were submitted: the new
\* entry of a placement, and the existing entry of a duplicate result.
C22_NoLossNoMisattribution ==
    [][ \A t \in Tasks :
          (Completes(t) /\ Succeeded(tasks'[t])) =>
              LET r == ResultOf(tasks'[t])
                  bucket == Bucket(sql_path', nosql_path',
                                   tasks'[t].analysis.recommendation)
              IN  /\ r.stored_name \in DOMAIN bucket
                  /\ IsPayloadFile(inodes'[bucket[r.stored_name]])
                  /\ inodes'[bucket[r.stored_name]].bytes = tasks[t].content ]_vars

\* the temporary file an ingest writes its payload to
TempOf(t) == TempName(tasks[t].kind, tasks[t].filename)

\* C23: when a single or bulk ingest that created its temporary file completes,
\* with whatever outcome (stored, duplicate, placement failure, failure while
\* writing the temporary file), no file of that name is left in the temp
\* location.
C23_NoTempOutlives ==
    [][ \A t \in Tasks :
          ( /\ tasks[t].pc \in {"opened", "written"}
            /\ tasks'[t].pc = "done" ) =>
                TempOf(t) \notin DOMAIN temp_path' ]_vars

=============================================================================
